---- MODULE Spec2Model ----
(***************************************************************************)
(* A model of taleweaver's layout, coordinate mapping and cursor commands. *)
(*                                                                         *)
(*   DocumentView (src/src/editor/view/DocumentView.ts): line breaking,    *)
(*   pagination and the position searches over pages, lines and words.     *)
(*   DocRenderNode (src/packages/core/src/render/DocRenderNode.ts): the    *)
(*   child list, the cached sizes and the selectable-to-model conversion.  *)
(*   cursor.ts (src/packages/core/src/command/handlers/cursor.ts): the     *)
(*   boundary searches on the layout tree and the cursor command handlers. *)
(*   Doc (src/packages/core/src/model/Doc.ts) and DocView                  *)
(*   (src/packages/taleweaver-core/src/view/DocView.ts): their child lists.*)
(*                                                                         *)
(* A box view is a record [id, width, height, size]; a line view is        *)
(* [width, boxViews]; a page view is [lineViews]; sequences are 1-based,   *)
(* so index n of the model is index n - 1 of the source.                  *)
(***************************************************************************)
EXTENDS Integers, Sequences, FiniteSets, TLC

VARIABLES
    boxViewBlocks,   \* DocumentView.boxViewBlocks
    config,          \* DocumentView.config
    lineViews,       \* DocumentView.lineViews
    pageViews,       \* DocumentView.pageViews
    prevLineViews,   \* history: lineViews as they were before the last buildLineViews
    lastBuild,       \* history: the build that ran last
    runs,            \* history: builds run since the constructor returned
    editorCursorView, \* DocumentView.editorCursorView, NoEditorCursorView when null
    children,        \* DocRenderNode.children
    selectableSize,  \* DocRenderNode.selectableSize: {} when undefined, else {the cached size}
    modelSize,       \* DocRenderNode.modelSize: {} when undefined, else {the cached size}
    renderNode,      \* DocRenderNode's id, width, height and padding
    layout,          \* the layout service's tree: pages of lines of words
    docContentSize,  \* the model service's content size
    cursor,          \* the cursor service's cursor, NoCursor when there is none
    transformation,  \* the Transformation the last command handler submitted
    docChildren,     \* Doc.children
    viewChildren,    \* DocView.children
    domChildNodes,   \* DocView.domContainer.childNodes
    call             \* the last call made and what it returned

viewVars == <<boxViewBlocks, config, lineViews, pageViews, prevLineViews, lastBuild, runs,
              editorCursorView>>
renderVars == <<children, selectableSize, modelSize, renderNode>>
serviceVars == <<layout, docContentSize, cursor, transformation>>
treeVars == <<docChildren, viewChildren, domChildNodes>>
restVars == <<serviceVars, treeVars>>
vars == <<viewVars, renderVars, serviceVars, treeVars, call>>

(***************************************************************************)
(* Bounds of the model.                                                    *)
(***************************************************************************)
\* Boxes (words) in a document, over all its blocks.
MaxBoxes == 3
\* Largest page width and page height.
MaxExtent == 3
\* Builds run again on a document view after its constructor.
MaxRuns == 1

\* Children of a DocRenderNode.
MaxChildren == 3

\* Blocks of a document: none, one or two.
BlockCounts == 0..2
\* Measured widths and heights of a box.
Widths == {1, 2}
Heights == {1, 2}
\* Sizes (selectable positions) of a box.
Sizes == {1, 2}
\* A page padding.
Paddings == {0, 1}
\* Selectable sizes and model sizes of a block render node.
ChildSelectableSizes == 0..2
ChildModelSizes == {2, 4}

(***************************************************************************)
(* Helpers.                                                                *)
(***************************************************************************)
Max(a, b) == IF a > b THEN a ELSE b
Min(a, b) == IF a < b THEN a ELSE b

RECURSIVE SumSeq(_)
SumSeq(s) == IF s = <<>> THEN 0 ELSE Head(s) + SumSeq(Tail(s))

RECURSIVE MaxSeq(_)
MaxSeq(s) == IF s = <<>> THEN 0 ELSE Max(Head(s), MaxSeq(Tail(s)))

RECURSIVE Flatten(_)
Flatten(ss) == IF ss = <<>> THEN <<>> ELSE Head(ss) \o Flatten(Tail(ss))

SeqsUpTo(S, n) == UNION {[1..k -> S] : k \in 0..n}

\* A returned value, and a thrown error.
Ok(v) == [ok |-> TRUE, value |-> v]
Err(msg) == [ok |-> FALSE, error |-> msg]

NoCall == [op |-> "none", args |-> <<>>, result |-> Ok(0)]

\* No cursor (getCursor() returns null), and no Transformation submitted yet.
NoCursor == [none |-> TRUE]
NoTransformation == [none |-> TRUE]

\* DocumentView.editorCursorView when it is null, and the editor cursors the
\* state can hold when a document view is constructed: none, or a cursor.
NoEditorCursorView == [none |-> TRUE]
EditorCursors == {NoCursor, [anchor |-> 0, head |-> 0]}

(***************************************************************************)
(* Measures of the views DocumentView reads.                               *)
(***************************************************************************)
\* LineView.getSize: the selectable positions of the line's boxes.
LineSize(lineView) == SumSeq([i \in 1..Len(lineView.boxViews) |-> lineView.boxViews[i].size])
\* LineView.getHeight: the height of the tallest box of the line.
LineHeight(lineView) == MaxSeq([i \in 1..Len(lineView.boxViews) |-> lineView.boxViews[i].height])
\* The widths of the boxes of a line, summed.
LineWidth(lineView) == SumSeq([i \in 1..Len(lineView.boxViews) |-> lineView.boxViews[i].width])
\* PageView.getSize: the selectable positions of the page's lines.
PageSize(pageView) == SumSeq([i \in 1..Len(pageView.lineViews) |-> LineSize(pageView.lineViews[i])])
\* The heights of the lines of a page, summed.
PageLinesHeight(pageView) == SumSeq([i \in 1..Len(pageView.lineViews) |-> LineHeight(pageView.lineViews[i])])
\* DocumentElement.getSize: the selectable positions of all the words.
getSize(blocks) == SumSeq([i \in 1..Len(blocks) |->
                      SumSeq([j \in 1..Len(blocks[i].boxViews) |-> blocks[i].boxViews[j].size])])

(***************************************************************************)
(* DocumentView.buildLineViews                                             *)
(***************************************************************************)
pageContentWidth(c) == c.pageWidth - c.pagePaddingLeft - c.pagePaddingRight

NewLineView(c) == [width |-> c.pageWidth - c.pagePaddingLeft - c.pagePaddingRight,
                   boxViews |-> <<>>]

\* Mutants of LineIsFull: a break on an exact fit, and a test that forgets
\* what is already on the line.
LineIsFullOnExactFit(cumulatedWidth, boxView, c) ==
    cumulatedWidth + boxView.width >= pageContentWidth(c)
LineIsFullIgnoringLine(cumulatedWidth, boxView, c) ==
    boxView.width > pageContentWidth(c)

\* "Start new line if current line is full".
LineIsFull(cumulatedWidth, boxView, c) ==
    cumulatedWidth + boxView.width > pageContentWidth(c)

\* The inner forEach over the boxes of a block. The current line view is the
\* last one pushed to lines.
RECURSIVE AppendBoxViews(_, _, _, _)
AppendBoxViews(lines, cumulatedWidth, boxViews, c) ==
    IF boxViews = <<>> THEN lines
    ELSE LET boxView == Head(boxViews)
             full == LineIsFull(cumulatedWidth, boxView, c)
             pushed == IF full THEN Append(lines, NewLineView(c)) ELSE lines
             cumulated == IF full THEN 0 ELSE cumulatedWidth
             appended == [pushed EXCEPT ![Len(pushed)].boxViews = Append(@, boxView)]
         IN AppendBoxViews(appended, cumulated + boxView.width, Tail(boxViews), c)

\* Mutant of StartBlock: a block goes on with the line the block before it left.
StartBlockOnSameLine(lines, c) ==
    IF lines = <<>> THEN Append(lines, NewLineView(c)) ELSE lines

\* The line view created and pushed for every block before its boxes are read.
StartBlock(lines, c) == Append(lines, NewLineView(c))

\* The outer forEach over the blocks.
RECURSIVE BuildBlockLines(_, _, _)
BuildBlockLines(lines, blocks, c) ==
    IF blocks = <<>> THEN lines
    ELSE BuildBlockLines(AppendBoxViews(StartBlock(lines, c), 0, Head(blocks).boxViews, c),
                         Tail(blocks), c)

\* Mutant of ResetLineViews: the lines of the run before are kept.
KeepLineViews(lines) == lines

\* "this.lineViews.length = 0"
ResetLineViews(lines) == <<>>

buildLineViews(lines, blocks, c) == BuildBlockLines(ResetLineViews(lines), blocks, c)

(***************************************************************************)
(* DocumentView.buildPageViews                                             *)
(***************************************************************************)
pageContentHeight(c) == c.pageHeight - c.pagePaddingTop - c.pagePaddingBottom

NewPageView == [lineViews |-> <<>>]

\* "Start new page if current page is full".
PageIsFull(cumulatedHeight, lineView, c) ==
    cumulatedHeight + LineHeight(lineView) > pageContentHeight(c)

\* The forEach over the line views. The current page view is the last one
\* pushed to pages.
RECURSIVE AppendLineViews(_, _, _, _)
AppendLineViews(pages, cumulatedHeight, lines, c) ==
    IF lines = <<>> THEN pages
    ELSE LET lineView == Head(lines)
             full == PageIsFull(cumulatedHeight, lineView, c)
             pushed == IF full THEN Append(pages, NewPageView) ELSE pages
             cumulated == IF full THEN 0 ELSE cumulatedHeight
             appended == [pushed EXCEPT ![Len(pushed)].lineViews = Append(@, lineView)]
         IN AppendLineViews(appended, cumulated + LineHeight(lineView), Tail(lines), c)

\* Mutant of buildPageViews: pageViews is not reset.
buildPageViewsWithoutReset(pages, lines, c) ==
    AppendLineViews(Append(pages, NewPageView), 0, lines, c)

\* pageViews is reset, a first page view is pushed, then the lines are read.
buildPageViews(pages, lines, c) == AppendLineViews(<<NewPageView>>, 0, lines, c)

(***************************************************************************)
(* DocumentView.resolvePageViewPosition: a page view is named by its index *)
(* in pageViews.                                                           *)
(***************************************************************************)
\* Mutant of resolvePageViewPosition: the pages before are not counted.
resolvePageViewPositionLocal(pageViewPosition, pageView) == pageViewPosition

resolvePageViewPosition(pageViewPosition, pageView) ==
    SumSeq([n \in 1..(pageView - 1) |-> PageSize(pageViews[n])]) + pageViewPosition

(***************************************************************************)
(* DocumentView.getScreenPositions: an entry is the page view and the      *)
(* range handed to that page view's getScreenPositions.                    *)
(***************************************************************************)
\* The loop over the page views, from the last one down.
RECURSIVE ScreenPositionsFrom(_, _, _, _, _)
ScreenPositionsFrom(n, currentPosition, screenPositions, from, to) ==
    IF n < 1
    THEN Err("Document screen positions cannot be determined")
    ELSE LET pageView == pageViews[n]
             position == currentPosition - PageSize(pageView)
             pushed == IF position <= to
                       THEN Append(screenPositions,
                                   [pageView |-> n,
                                    from |-> Max(from - position, 0),
                                    to |-> Min(to - position, PageSize(pageView) - 1)])
                       ELSE screenPositions
         IN IF position <= from
            THEN Ok(pushed)
            ELSE ScreenPositionsFrom(n - 1, position, pushed, from, to)

getScreenPositions(from, to) ==
    IF from >= getSize(boxViewBlocks) \/ to >= getSize(boxViewBlocks)
    THEN Err("Document screen positions cannot be determined")
    ELSE ScreenPositionsFrom(Len(pageViews), getSize(boxViewBlocks), <<>>, from, to)

(***************************************************************************)
(* DocumentView.getLineStartPosition                                       *)
(***************************************************************************)
\* The search of a result in a loop: found with the position to return, or
\* not found with the position the loop has reached.
Found(position) == [found |-> TRUE, currentPosition |-> position]
NotFound(position) == [found |-> FALSE, currentPosition |-> position]

RECURSIVE LineStartInLines(_, _, _, _)
LineStartInLines(lines, m, currentPosition, position) ==
    IF m > Len(lines) THEN NotFound(currentPosition)
    ELSE IF currentPosition + LineSize(lines[m]) <= position
         THEN LineStartInLines(lines, m + 1, currentPosition + LineSize(lines[m]), position)
         ELSE Found(currentPosition)

RECURSIVE LineStartInPages(_, _, _)
LineStartInPages(n, currentPosition, position) ==
    IF n > Len(pageViews) THEN Err("Position is not in the document")
    ELSE IF currentPosition + PageSize(pageViews[n]) <= position
         THEN LineStartInPages(n + 1, currentPosition + PageSize(pageViews[n]), position)
         ELSE LET r == LineStartInLines(pageViews[n].lineViews, 1, currentPosition, position)
              IN IF r.found THEN Ok(r.currentPosition)
                 ELSE LineStartInPages(n + 1, r.currentPosition, position)

getLineStartPosition(position) == LineStartInPages(1, 0, position)

(***************************************************************************)
(* DocumentView.getLineEndPosition                                         *)
(***************************************************************************)
RECURSIVE LineEndInLines(_, _, _, _)
LineEndInLines(lines, m, currentPosition, position) ==
    IF m < 1 THEN NotFound(currentPosition)
    ELSE IF currentPosition - LineSize(lines[m]) >= position
         THEN LineEndInLines(lines, m - 1, currentPosition - LineSize(lines[m]), position)
         ELSE Found(currentPosition)

RECURSIVE LineEndInPages(_, _, _)
LineEndInPages(n, currentPosition, position) ==
    IF n < 1 THEN Err("Position is not in the document")
    ELSE IF currentPosition - PageSize(pageViews[n]) >= position
         THEN LineEndInPages(n - 1, currentPosition - PageSize(pageViews[n]), position)
         ELSE LET lines == pageViews[n].lineViews
                  r == LineEndInLines(lines, Len(lines), currentPosition, position)
              IN IF r.found THEN Ok(r.currentPosition)
                 ELSE LineEndInPages(n - 1, r.currentPosition, position)

getLineEndPosition(position) ==
    LineEndInPages(Len(pageViews), getSize(boxViewBlocks) - 1, position)

(***************************************************************************)
(* DocumentView.getWordStartPosition                                       *)
(***************************************************************************)
\* "Try to go to previous word": word o of line m of page n starts at
\* currentPosition, which is the position asked for.
PreviousWordStart(n, m, o, currentPosition) ==
    LET lines == pageViews[n].lineViews
        wordViews == lines[m].boxViews
    IN IF o > 1 THEN currentPosition - wordViews[o - 1].size
       ELSE IF m > 1
       THEN LET previousWords == lines[m - 1].boxViews
            IN IF Len(previousWords) > 0
               THEN currentPosition - previousWords[Len(previousWords)].size
               ELSE currentPosition
       ELSE IF n > 1
       THEN LET previousLines == pageViews[n - 1].lineViews
            IN IF Len(previousLines) > 0
               THEN LET previousWords == previousLines[Len(previousLines)].boxViews
                    IN IF Len(previousWords) > 0
                       THEN currentPosition - previousWords[Len(previousWords)].size
                       ELSE currentPosition
               ELSE currentPosition
       ELSE currentPosition

RECURSIVE WordStartInWords(_, _, _, _, _)
WordStartInWords(n, m, o, currentPosition, position) ==
    LET wordViews == pageViews[n].lineViews[m].boxViews
    IN IF o > Len(wordViews) THEN NotFound(currentPosition)
       ELSE IF currentPosition + wordViews[o].size <= position
            THEN WordStartInWords(n, m, o + 1, currentPosition + wordViews[o].size, position)
            ELSE IF position = currentPosition
                 THEN Found(PreviousWordStart(n, m, o, currentPosition))
                 ELSE Found(currentPosition)

RECURSIVE WordStartInLines(_, _, _, _)
WordStartInLines(n, m, currentPosition, position) ==
    LET lines == pageViews[n].lineViews
    IN IF m > Len(lines) THEN NotFound(currentPosition)
       ELSE IF currentPosition + LineSize(lines[m]) <= position
            THEN WordStartInLines(n, m + 1, currentPosition + LineSize(lines[m]), position)
            ELSE LET r == WordStartInWords(n, m, 1, currentPosition, position)
                 IN IF r.found THEN r
                    ELSE WordStartInLines(n, m + 1, r.currentPosition, position)

RECURSIVE WordStartInPages(_, _, _)
WordStartInPages(n, currentPosition, position) ==
    IF n > Len(pageViews) THEN Err("Position is not in the document")
    ELSE IF currentPosition + PageSize(pageViews[n]) <= position
         THEN WordStartInPages(n + 1, currentPosition + PageSize(pageViews[n]), position)
         ELSE LET r == WordStartInLines(n, 1, currentPosition, position)
              IN IF r.found THEN Ok(r.currentPosition)
                 ELSE WordStartInPages(n + 1, r.currentPosition, position)

getWordStartPosition(position) == WordStartInPages(1, 0, position)

(***************************************************************************)
(* DocumentView.getWordEndPosition                                         *)
(***************************************************************************)
\* "Try to go to next word": word o of line m of page n ends at
\* currentPosition, which is the position asked for.
NextWordEnd(n, m, o, currentPosition) ==
    LET lines == pageViews[n].lineViews
        wordViews == lines[m].boxViews
    IN IF o < Len(wordViews) THEN currentPosition + wordViews[o + 1].size
       ELSE IF m < Len(lines)
       THEN LET nextWords == lines[m + 1].boxViews
            IN IF Len(nextWords) > 0
               THEN currentPosition + nextWords[1].size
               ELSE currentPosition
       ELSE IF n < Len(pageViews)
       THEN LET nextLines == pageViews[n + 1].lineViews
            IN IF Len(nextLines) > 0
               THEN LET nextWords == nextLines[1].boxViews
                    IN IF Len(nextWords) > 0
                       THEN currentPosition + nextWords[1].size
                       ELSE currentPosition
               ELSE currentPosition
       ELSE currentPosition

RECURSIVE WordEndInWords(_, _, _, _, _)
WordEndInWords(n, m, o, currentPosition, position) ==
    LET wordViews == pageViews[n].lineViews[m].boxViews
    IN IF o < 1 THEN NotFound(currentPosition)
       ELSE IF currentPosition - wordViews[o].size >= position
            THEN WordEndInWords(n, m, o - 1, currentPosition - wordViews[o].size, position)
            ELSE IF position = currentPosition
                 THEN Found(NextWordEnd(n, m, o, currentPosition))
                 ELSE Found(currentPosition)

RECURSIVE WordEndInLines(_, _, _, _)
WordEndInLines(n, m, currentPosition, position) ==
    LET lines == pageViews[n].lineViews
    IN IF m < 1 THEN NotFound(currentPosition)
       ELSE IF currentPosition - LineSize(lines[m]) >= position
            THEN WordEndInLines(n, m - 1, currentPosition - LineSize(lines[m]), position)
            ELSE LET r == WordEndInWords(n, m, Len(lines[m].boxViews), currentPosition, position)
                 IN IF r.found THEN r
                    ELSE WordEndInLines(n, m - 1, r.currentPosition, position)

RECURSIVE WordEndInPages(_, _, _)
WordEndInPages(n, currentPosition, position) ==
    IF n < 1 THEN Err("Position is not in the document")
    ELSE IF currentPosition - PageSize(pageViews[n]) >= position
         THEN WordEndInPages(n - 1, currentPosition - PageSize(pageViews[n]), position)
         ELSE LET r == WordEndInLines(n, Len(pageViews[n].lineViews), currentPosition, position)
              IN IF r.found THEN Ok(r.currentPosition)
                 ELSE WordEndInPages(n - 1, r.currentPosition, position)

getWordEndPosition(position) ==
    WordEndInPages(Len(pageViews), getSize(boxViewBlocks) - 1, position)

(***************************************************************************)
(* The documents and configurations a document view is constructed from.   *)
(***************************************************************************)
\* Block lengths: one length per block, summing to n.
BlockLengths(n) ==
    {lens \in UNION {[1..k -> 0..n] : k \in BlockCounts} : SumSeq(lens) = n}

\* The blocks holding the boxes of flat, in order, cut at the lengths lens.
BlocksOf(flat, lens) ==
    [i \in 1..Len(lens) |->
        [blockElement |-> i,
         boxViews |-> LET start == SumSeq(SubSeq(lens, 1, i - 1))
                      IN [j \in 1..lens[i] |->
                             [id |-> start + j,
                              width |-> flat[start + j].width,
                              height |-> flat[start + j].height,
                              size |-> flat[start + j].size]]]]

\* Every document of at most MaxBoxes boxes with the given measures.
Documents(Ws, Hs, Ss) ==
    UNION {{BlocksOf(flat, lens) : lens \in BlockLengths(Len(flat))} :
              flat \in SeqsUpTo([width : Ws, height : Hs, size : Ss], MaxBoxes)}

AllConfigs ==
    [pageWidth : 0..MaxExtent, pageHeight : 0..MaxExtent,
     pagePaddingTop : Paddings, pagePaddingBottom : Paddings,
     pagePaddingLeft : Paddings, pagePaddingRight : Paddings]

PaddingCount(c) ==
    c.pagePaddingTop + c.pagePaddingBottom + c.pagePaddingLeft + c.pagePaddingRight

\* Configurations with at most one padded side; the six numbers are otherwise
\* unconstrained, so a content extent may be negative.
Configs == {c \in AllConfigs : PaddingCount(c) <= 1}

\* Configurations without padding.
PlainConfigs == {c \in AllConfigs : PaddingCount(c) = 0}

(***************************************************************************)
(* The constructor: buildBoxViewBlocks, buildLineViews, buildPageViews,    *)
(* buildEditorCursorView.                                                  *)
(***************************************************************************)
\* buildEditorCursorView: without an editor cursor in the state the view
\* stays null; else an EditorCursorView is made, on which no select method
\* has been called yet.
buildEditorCursorView(editorCursor) ==
    IF editorCursor = NoCursor THEN NoEditorCursorView
    ELSE [editorCursor |-> editorCursor, select |-> "none", position |-> 0]

ConstructedView(blocks, c, editorCursor) ==
    /\ editorCursorView = buildEditorCursorView(editorCursor)
    /\ boxViewBlocks = blocks
    /\ config = c
    /\ lineViews = buildLineViews(<<>>, blocks, c)
    /\ pageViews = buildPageViews(<<>>, buildLineViews(<<>>, blocks, c), c)
    /\ prevLineViews = <<>>
    /\ lastBuild = "constructor"
    /\ runs = 0

\* A new DocRenderNode, Doc and DocView: no children, nothing cached.
NewTrees ==
    /\ children = <<>> /\ selectableSize = {} /\ modelSize = {}
    /\ renderNode = [id |-> "doc", width |-> 0, height |-> 0, padding |-> 0]
    /\ docChildren = <<>> /\ viewChildren = <<>> /\ domChildNodes = <<>>

\* The services beside a document that has no content: an empty layout tree,
\* no cursor, nothing submitted.
NoServices ==
    /\ layout = <<>> /\ docContentSize = 0
    /\ cursor = NoCursor /\ transformation = NoTransformation

Constructed(blocks, c, editorCursor) ==
    /\ ConstructedView(blocks, c, editorCursor)
    /\ NewTrees
    /\ NoServices
    /\ call = NoCall

\* Layout: boxes of every width and height, every configuration. The builds
\* neither read nor write the editor cursor view, and the state has no editor
\* cursor here.
Init == \E blocks \in Documents(Widths, Heights, {1}) : \E c \in Configs :
            Constructed(blocks, c, NoCursor)

\* A further run of buildLineViews on the unchanged blocks.
BuildLineViews ==
    /\ runs < MaxRuns
    /\ lineViews' = buildLineViews(lineViews, boxViewBlocks, config)
    /\ prevLineViews' = lineViews
    /\ lastBuild' = "buildLineViews"
    /\ runs' = runs + 1
    /\ UNCHANGED <<boxViewBlocks, config, pageViews, editorCursorView, renderVars, restVars, call>>

\* A further run of buildPageViews on the current lines.
BuildPageViews ==
    /\ runs < MaxRuns
    /\ pageViews' = buildPageViews(pageViews, lineViews, config)
    /\ lastBuild' = "buildPageViews"
    /\ runs' = runs + 1
    /\ UNCHANGED <<boxViewBlocks, config, lineViews, prevLineViews, editorCursorView,
                   renderVars, restVars, call>>

Next == BuildLineViews \/ BuildPageViews

Spec == Init /\ [][Next]_vars

(***************************************************************************)
(* The position queries on a constructed document view.                    *)
(***************************************************************************)
\* Positions asked for: those of the document, one before and one past them.
Positions == (0 - 1)..getSize(boxViewBlocks)

\* Words of every size on lines and pages of every length, with and without
\* an editor cursor in the state.
PositionInit == \E blocks \in Documents({1}, {1}, Sizes) : \E c \in PlainConfigs :
                    \E editorCursor \in EditorCursors : Constructed(blocks, c, editorCursor)

\* A query leaves the document view as it is, so every state a run of queries
\* reaches is reached by its last query alone: call records one query.
Query(op, args, result) ==
    /\ call = NoCall
    /\ call' = [op |-> op, args |-> args, result |-> result]
    /\ UNCHANGED <<viewVars, renderVars, restVars>>

GetScreenPositions ==
    \E from \in Positions, to \in Positions :
        Query("getScreenPositions", <<from, to>>, getScreenPositions(from, to))

GetLineStartPosition ==
    \E position \in Positions :
        Query("getLineStartPosition", <<position>>, getLineStartPosition(position))

GetLineEndPosition ==
    \E position \in Positions :
        Query("getLineEndPosition", <<position>>, getLineEndPosition(position))

GetWordStartPosition ==
    \E position \in Positions :
        Query("getWordStartPosition", <<position>>, getWordStartPosition(position))

GetWordEndPosition ==
    \E position \in Positions :
        Query("getWordEndPosition", <<position>>, getWordEndPosition(position))

\* A pointer handler of a page: without an editor cursor view it returns at
\* once; else it resolves the position of the event and hands it to the select
\* method of the editor cursor view. The event is of a page view and a
\* position on that page.
HandlePointerOnPage(op, select) ==
    \E n \in 1..Len(pageViews) : \E pageViewPosition \in 0..(PageSize(pageViews[n]) - 1) :
        /\ call' = [op |-> op, args |-> <<pageViewPosition, n>>, result |-> Ok(0)]
        /\ editorCursorView' =
              IF editorCursorView = NoEditorCursorView THEN editorCursorView
              ELSE [editorCursorView EXCEPT
                       !.select = select,
                       !.position = resolvePageViewPosition(pageViewPosition, n)]
        /\ UNCHANGED <<boxViewBlocks, config, lineViews, pageViews, prevLineViews, lastBuild,
                       runs, renderVars, restVars>>

HandlePointerDownOnPage == HandlePointerOnPage("handlePointerDownOnPage", "beginSelect")
HandlePointerMoveOnPage == HandlePointerOnPage("handlePointerMoveOnPage", "moveSelect")
HandlePointerUpOnPage == HandlePointerOnPage("handlePointerUpOnPage", "endSelect")

PositionNext ==
    \/ GetScreenPositions
    \/ GetLineStartPosition
    \/ GetLineEndPosition
    \/ GetWordStartPosition
    \/ GetWordEndPosition
    \/ HandlePointerDownOnPage
    \/ HandlePointerMoveOnPage
    \/ HandlePointerUpOnPage

PositionSpec == PositionInit /\ [][PositionNext]_vars

(***************************************************************************)
(* DocRenderNode. A child (a block render node) is a record                *)
(* [id, selectableSize, modelSize, offsets]: offsets[s + 1] is the model   *)
(* offset, within the child, of the child's selectable offset s. Two nodes *)
(* of the same measures differ by their id, so a record names one node, as *)
(* the reference that indexOf compares does.                               *)
(***************************************************************************)
\* The ids that tell block render nodes of equal measures apart.
ChildIds == {1, 2}

\* The block render nodes: each converts its selectable offsets, in order,
\* into model offsets of [1, modelSize - 1).
ChildNodes ==
    UNION {UNION {{[id |-> i, selectableSize |-> s, modelSize |-> m, offsets |-> f] :
                      i \in ChildIds,
                      f \in {g \in [1..s -> 1..(m - 2)] :
                                \A a, b \in 1..s : a < b => g[a] < g[b]}} :
                  m \in ChildModelSizes} :
           s \in ChildSelectableSizes}

\* BlockRenderNode.convertSelectableOffsetToModelOffset
ChildConvert(child, selectableOffset) ==
    IF selectableOffset >= 0 /\ selectableOffset < child.selectableSize
    THEN Ok(child.offsets[selectableOffset + 1])
    ELSE Err("Selectable offset is out of range")

\* RenderNode.clearCache: both cached sizes become undefined.
ClearedCache == {}

\* Array.splice(offset, 0, child) and Array.splice(offset, 1); offset counts from 0.
SpliceIn(seq, offset, child) ==
    SubSeq(seq, 1, Min(offset, Len(seq))) \o <<child>> \o SubSeq(seq, Min(offset, Len(seq)) + 1, Len(seq))
SpliceOut(seq, offset) == SubSeq(seq, 1, offset) \o SubSeq(seq, offset + 2, Len(seq))

\* Array.indexOf, counting from 0; -1 when the child is not in the list.
IndexOf(seq, child) ==
    IF \E i \in 1..Len(seq) : seq[i] = child
    THEN (CHOOSE i \in 1..Len(seq) : seq[i] = child /\ \A h \in 1..(i - 1) : seq[h] # child) - 1
    ELSE 0 - 1

\* The sizes getSelectableSize and getModelSize compute when nothing is cached.
ComputedSelectableSize(nodes) == SumSeq([n \in 1..Len(nodes) |-> nodes[n].selectableSize])
ComputedModelSize(nodes) == 2 + SumSeq([n \in 1..Len(nodes) |-> nodes[n].modelSize])

\* Mutant of ChildHoldsOffset: a child is taken for an offset just past it.
ChildHoldsOffsetInclusive(cumulatedSelectableOffset, child, selectableOffset) ==
    cumulatedSelectableOffset + child.selectableSize >= selectableOffset

\* The test that the offset falls in this child.
ChildHoldsOffset(cumulatedSelectableOffset, child, selectableOffset) ==
    cumulatedSelectableOffset + child.selectableSize > selectableOffset

\* Mutant of NextModelOffset: the selectable size is added in place of the model size.
NextModelOffsetBySelectable(cumulatedModelOffset, child) ==
    cumulatedModelOffset + child.selectableSize

\* "cumulatedModelOffset += child.getModelSize()"
NextModelOffset(cumulatedModelOffset, child) == cumulatedModelOffset + child.modelSize

\* The loop over the children.
RECURSIVE ConvertFrom(_, _, _, _, _)
ConvertFrom(nodes, n, cumulatedSelectableOffset, cumulatedModelOffset, selectableOffset) ==
    IF n > Len(nodes) THEN Err("Selectable offset is out of range")
    ELSE IF ChildHoldsOffset(cumulatedSelectableOffset, nodes[n], selectableOffset)
         THEN LET r == ChildConvert(nodes[n], selectableOffset - cumulatedSelectableOffset)
              IN IF r.ok THEN Ok(cumulatedModelOffset + r.value) ELSE r
         ELSE ConvertFrom(nodes, n + 1,
                          cumulatedSelectableOffset + nodes[n].selectableSize,
                          NextModelOffset(cumulatedModelOffset, nodes[n]),
                          selectableOffset)

convertSelectableOffsetToModelOffset(nodes, selectableOffset) ==
    ConvertFrom(nodes, 1, 0, 1, selectableOffset)

\* The state of a new DocRenderNode; the document view beside it is empty and
\* has no editor cursor.
RenderInit ==
    \E c \in {c \in PlainConfigs : c.pageWidth = 0 /\ c.pageHeight = 0} :
        Constructed(<<>>, c, NoCursor)

Called(op, args, result) == call' = [op |-> op, args |-> args, result |-> result]

\* Mutant of InsertChild: the child is inserted and the cache is kept.
InsertChildKeepingCache ==
    /\ Len(children) < MaxChildren
    /\ \E child \in ChildNodes : \E offset \in (0 - 1)..Len(children) :
          /\ children' = IF offset = 0 - 1 THEN Append(children, child)
                         ELSE SpliceIn(children, offset, child)
          /\ Called("insertChild", <<>>, Ok(0))
    /\ UNCHANGED <<viewVars, restVars, renderNode, selectableSize, modelSize>>

\* insertChild(child, offset); offset is null (here -1) or an index of the list.
InsertChild ==
    /\ Len(children) < MaxChildren
    /\ \E child \in ChildNodes : \E offset \in (0 - 1)..Len(children) :
          /\ children' = IF offset = 0 - 1 THEN Append(children, child)
                         ELSE SpliceIn(children, offset, child)
          /\ selectableSize' = ClearedCache
          /\ modelSize' = ClearedCache
          /\ Called("insertChild", <<>>, Ok(0))
    /\ UNCHANGED <<viewVars, restVars, renderNode>>

\* deleteChild(child)
DeleteChild ==
    /\ \E child \in ChildNodes :
          LET childOffset == IndexOf(children, child)
          IN IF childOffset < 0
             THEN /\ Called("deleteChild", <<>>, Err("Cannot delete child, child not found."))
                  /\ UNCHANGED renderVars
             ELSE /\ children' = SpliceOut(children, childOffset)
                  /\ selectableSize' = ClearedCache
                  /\ modelSize' = ClearedCache
                  /\ Called("deleteChild", <<>>, Ok(0))
    /\ UNCHANGED <<viewVars, restVars, renderNode>>

\* getSelectableSize()
GetSelectableSize ==
    /\ selectableSize' = IF selectableSize = {} THEN {ComputedSelectableSize(children)}
                         ELSE selectableSize
    /\ Called("getSelectableSize", <<>>, Ok(CHOOSE v \in selectableSize' : TRUE))
    /\ UNCHANGED <<viewVars, restVars, children, modelSize, renderNode>>

\* getModelSize()
GetModelSize ==
    /\ modelSize' = IF modelSize = {} THEN {ComputedModelSize(children)} ELSE modelSize
    /\ Called("getModelSize", <<>>, Ok(CHOOSE v \in modelSize' : TRUE))
    /\ UNCHANGED <<viewVars, restVars, children, selectableSize, renderNode>>

\* convertSelectableOffsetToModelOffset(selectableOffset), for the offsets of
\* the node and the two past them.
ConvertSelectableOffsetToModelOffset ==
    /\ \E selectableOffset \in 0..(ComputedSelectableSize(children) + 1) :
          Called("convertSelectableOffsetToModelOffset", <<selectableOffset>>,
                 convertSelectableOffsetToModelOffset(children, selectableOffset))
    /\ UNCHANGED <<viewVars, renderVars, restVars>>

\* The Doc elements a render node is updated from: their id and dimensions.
DocElements == {[id |-> "doc", width |-> 2, height |-> 2, padding |-> 1]}

\* onModelUpdated(element)
OnModelUpdated ==
    /\ \E element \in DocElements :
          /\ renderNode' = [id |-> element.id, width |-> element.width,
                            height |-> element.height, padding |-> element.padding]
          /\ selectableSize' = ClearedCache
          /\ modelSize' = ClearedCache
          /\ Called("onModelUpdated", <<>>, Ok(0))
    /\ UNCHANGED <<viewVars, restVars, children>>

RenderNext ==
    \/ InsertChild
    \/ DeleteChild
    \/ OnModelUpdated
    \/ GetSelectableSize
    \/ GetModelSize
    \/ ConvertSelectableOffsetToModelOffset

RenderSpec == RenderInit /\ [][RenderNext]_vars

(***************************************************************************)
(* What the claims speak of, read off the current state.                   *)
(***************************************************************************)
\* The block that holds the box with this id.
BlockOfBox(id) ==
    CHOOSE k \in 1..Len(boxViewBlocks) :
        \E j \in 1..Len(boxViewBlocks[k].boxViews) : boxViewBlocks[k].boxViews[j].id = id

\* The first line that holds the box with this id.
LineOfBox(id) ==
    CHOOSE i \in 1..Len(lineViews) :
        /\ \E j \in 1..Len(lineViews[i].boxViews) : lineViews[i].boxViews[j].id = id
        /\ \A h \in 1..(i - 1) :
              \A j \in 1..Len(lineViews[h].boxViews) : lineViews[h].boxViews[j].id # id

\* The ids of all boxes of the document.
BoxIds == 1..Len(Flatten([k \in 1..Len(boxViewBlocks) |-> boxViewBlocks[k].boxViews]))

\* The box with this id.
BoxOfId(id) == Flatten([k \in 1..Len(boxViewBlocks) |-> boxViewBlocks[k].boxViews])[id]

\* The widths of the first j boxes of a line, summed.
PrefixWidth(lineView, j) == SumSeq([x \in 1..j |-> lineView.boxViews[x].width])

\* The ids of the boxes of each line, line by line.
LineIds(lines) ==
    [i \in 1..Len(lines) |-> [j \in 1..Len(lines[i].boxViews) |-> lines[i].boxViews[j].id]]

\* "Hello world" and "Foo": boxes of 6, 5 and 3 units, content width 6.
HelloBlocks ==
    BlocksOf(<<[width |-> 6, height |-> 1, size |-> 6],
               [width |-> 5, height |-> 1, size |-> 5],
               [width |-> 3, height |-> 1, size |-> 3]>>, <<2, 1>>)

HelloConfig ==
    [pageWidth |-> 8, pageHeight |-> 10, pagePaddingTop |-> 0, pagePaddingBottom |-> 0,
     pagePaddingLeft |-> 1, pagePaddingRight |-> 1]

(***************************************************************************)
(* C1. Line breaking is greedy within a block: a box stays on the line of  *)
(* the box before it exactly when the widths already on that line plus its *)
(* own width are at most the page content width (an exact fit stays), and  *)
(* starts the next line only when they are strictly greater. "Hello ",     *)
(* "world" / "Foo" at content width 6 gives the lines [Hello ], [world],   *)
(* [Foo].                                                                  *)
(***************************************************************************)
C1_GreedyLineBreaking ==
    /\ \A i \in 1..Len(lineViews) : \A j \in 2..Len(lineViews[i].boxViews) :
          PrefixWidth(lineViews[i], j - 1) + lineViews[i].boxViews[j].width
              <= config.pageWidth - config.pagePaddingLeft - config.pagePaddingRight
    /\ \A id \in BoxIds :
          (id - 1 \in BoxIds /\ BlockOfBox(id - 1) = BlockOfBox(id)
             /\ LineOfBox(id) # LineOfBox(id - 1))
          => /\ LineOfBox(id) = LineOfBox(id - 1) + 1
             /\ LineWidth(lineViews[LineOfBox(id - 1)]) + BoxOfId(id).width
                  > config.pageWidth - config.pagePaddingLeft - config.pagePaddingRight
    /\ LineIds(buildLineViews(<<>>, HelloBlocks, HelloConfig)) = << <<1>>, <<2>>, <<3>> >>

\* A line that a box fills exactly, followed by a line of the same block.
C1_Witness ==
    \E i \in 1..Len(lineViews) :
        /\ Len(lineViews[i].boxViews) >= 2
        /\ LineWidth(lineViews[i]) = pageContentWidth(config)
        /\ i < Len(lineViews)
        /\ lineViews[i + 1].boxViews # <<>>
        /\ BlockOfBox(lineViews[i + 1].boxViews[1].id) = BlockOfBox(lineViews[i].boxViews[1].id)

(***************************************************************************)
(* C2. Every page built by buildPageViews holds at least one line, also    *)
(* when the first line is taller than the page content height. (Stated for *)
(* documents that have a line at all.)                                     *)
(***************************************************************************)
C2_EveryPageHasALine ==
    Len(lineViews) >= 1 => \A n \in 1..Len(pageViews) : Len(pageViews[n].lineViews) >= 1

(***************************************************************************)
(* C3. On every page the heights of its lines sum to at most the page      *)
(* content height, except on a page that holds exactly one line which is   *)
(* itself taller than the page content height.                             *)
(***************************************************************************)
C3_PagesFit ==
    \A n \in 1..Len(pageViews) :
        \/ PageLinesHeight(pageViews[n])
              <= config.pageHeight - config.pagePaddingTop - config.pagePaddingBottom
        \/ /\ Len(pageViews[n].lineViews) = 1
           /\ LineHeight(pageViews[n].lineViews[1])
                 > config.pageHeight - config.pagePaddingTop - config.pagePaddingBottom

(***************************************************************************)
(* C4. A box wider than the page content width is on a line that holds no  *)
(* other box: the box before it is on an earlier line, the box after it on *)
(* a later line.                                                           *)
(***************************************************************************)
C4_OverWideBoxAlone ==
    \A id \in BoxIds :
        BoxOfId(id).width > config.pageWidth - config.pagePaddingLeft - config.pagePaddingRight
        => /\ Len(lineViews[LineOfBox(id)].boxViews) = 1
           /\ id - 1 \in BoxIds => LineOfBox(id - 1) < LineOfBox(id)
           /\ id + 1 \in BoxIds => LineOfBox(id + 1) > LineOfBox(id)

\* An over-wide box between two boxes of its block that do fit.
C4_Witness ==
    \E id \in BoxIds :
        /\ BoxOfId(id).width > pageContentWidth(config)
        /\ id - 1 \in BoxIds /\ id + 1 \in BoxIds
        /\ BlockOfBox(id - 1) = BlockOfBox(id) /\ BlockOfBox(id + 1) = BlockOfBox(id)
        /\ BoxOfId(id - 1).width <= pageContentWidth(config)
        /\ BoxOfId(id + 1).width <= pageContentWidth(config)
        /\ Len(lineViews[LineOfBox(id)].boxViews) = 1

(***************************************************************************)
(* C5. No line holds boxes of two blocks: the first box of every block     *)
(* starts a line, also when the last line of the block before has room.    *)
(***************************************************************************)
C5_BlocksNeverShareALine ==
    /\ \A i \in 1..Len(lineViews) : \A j1, j2 \in 1..Len(lineViews[i].boxViews) :
          BlockOfBox(lineViews[i].boxViews[j1].id) = BlockOfBox(lineViews[i].boxViews[j2].id)
    /\ \A k \in 1..Len(boxViewBlocks) :
          boxViewBlocks[k].boxViews # <<>>
          => lineViews[LineOfBox(boxViewBlocks[k].boxViews[1].id)].boxViews[1].id
                = boxViewBlocks[k].boxViews[1].id

\* The first box of the second block would have fitted on the first block's last line.
C5_Witness ==
    /\ Len(boxViewBlocks) = 2
    /\ boxViewBlocks[1].boxViews # <<>> /\ boxViewBlocks[2].boxViews # <<>>
    /\ LET last == boxViewBlocks[1].boxViews[Len(boxViewBlocks[1].boxViews)]
           first == boxViewBlocks[2].boxViews[1]
       IN /\ LineWidth(lineViews[LineOfBox(last.id)]) + first.width <= pageContentWidth(config)
          /\ LineOfBox(first.id) > LineOfBox(last.id)

(***************************************************************************)
(* C6. A second run of buildLineViews on unchanged blocks and config gives *)
(* the same lines: as many, and on each the same boxes in the same order.  *)
(***************************************************************************)
C6_LineBreakingIdempotent ==
    lastBuild = "buildLineViews"
    => /\ Len(lineViews) = Len(prevLineViews)
       /\ \A i \in 1..Len(lineViews) : lineViews[i].boxViews = prevLineViews[i].boxViews

\* A second run on a document of several lines.
C6_Witness ==
    /\ lastBuild = "buildLineViews"
    /\ Len(prevLineViews) >= 2
    /\ \E i \in 1..Len(prevLineViews) : prevLineViews[i].boxViews # <<>>
    /\ lineViews = prevLineViews

(***************************************************************************)
(* C7. With children that convert monotonically into [1, childModelSize -  *)
(* 1), the conversion of a DocRenderNode is strictly increasing over [0,   *)
(* selectableSize) and lies in [1, modelSize - 1); the first offset of a   *)
(* child lands after the model sizes of all children before it, those of   *)
(* selectable size 0 included.                                             *)
(***************************************************************************)
C7_ConversionMonotonic ==
    LET sel == ComputedSelectableSize(children)
        conv(s) == convertSelectableOffsetToModelOffset(children, s)
    IN /\ \A s \in 0..(sel - 1) :
             /\ conv(s).ok
             /\ conv(s).value >= 1
             /\ conv(s).value < ComputedModelSize(children) - 1
             /\ s + 1 < sel => conv(s).value < conv(s + 1).value
       /\ \A k \in 1..Len(children) :
             children[k].selectableSize > 0
             => conv(ComputedSelectableSize(SubSeq(children, 1, k - 1))).value
                   = 1 + SumSeq([i \in 1..(k - 1) |-> children[i].modelSize])
                       + children[k].offsets[1]

\* An offset converted in a child that follows a child of selectable size 0
\* and a child with content.
C7_Witness ==
    /\ Len(children) = 3
    /\ children[1].selectableSize > 0
    /\ children[2].selectableSize = 0
    /\ children[3].selectableSize > 0
    /\ call.op = "convertSelectableOffsetToModelOffset"
    /\ call.args[1] >= children[1].selectableSize
    /\ call.result.ok
    /\ call.result.value > children[1].modelSize + children[2].modelSize

(***************************************************************************)
(* C8. The conversion returns for every offset of [0, selectableSize) and  *)
(* raises the out-of-range error for every offset from selectableSize on,  *)
(* so for every offset when the node has no children.                      *)
(***************************************************************************)
C8_ConversionTotal ==
    call.op = "convertSelectableOffsetToModelOffset"
    => /\ call.args[1] < ComputedSelectableSize(children) => call.result.ok
       /\ call.args[1] >= ComputedSelectableSize(children) => ~call.result.ok

\* The offset just past the last one, asked of a node with content.
C8_Witness ==
    /\ call.op = "convertSelectableOffsetToModelOffset"
    /\ ComputedSelectableSize(children) > 0
    /\ call.args[1] = ComputedSelectableSize(children)
    /\ ~call.result.ok

(***************************************************************************)
(* C9. A position before the document or at or past its size makes each of *)
(* getLineStartPosition, getLineEndPosition, getWordStartPosition,         *)
(* getWordEndPosition and getScreenPositions (as from or as to) raise an   *)
(* error: none returns a position or an empty result.                      *)
(***************************************************************************)
OutOfDocument(position) == position < 0 \/ position >= getSize(boxViewBlocks)

C9_OutOfRangeRaises ==
    /\ call.op \in {"getLineStartPosition", "getLineEndPosition",
                    "getWordStartPosition", "getWordEndPosition"}
       /\ OutOfDocument(call.args[1])
       => ~call.result.ok
    /\ call.op = "getScreenPositions"
       /\ (OutOfDocument(call.args[1]) \/ OutOfDocument(call.args[2]))
       => ~call.result.ok

(***************************************************************************)
(* C10. For every position p of the document, getScreenPositions(p, p)     *)
(* returns exactly one entry, of a page P and the page-local range l..l,   *)
(* and resolvePageViewPosition(l, P) is p.                                 *)
(***************************************************************************)
C10_ScreenPositionRoundTrip ==
    call.op = "getScreenPositions"
    /\ call.args[1] = call.args[2]
    /\ call.args[1] >= 0 /\ call.args[1] < getSize(boxViewBlocks)
    => /\ call.result.ok
       /\ Len(call.result.value) = 1
       /\ call.result.value[1].from = call.result.value[1].to
       /\ call.result.value[1].from >= 0
       /\ call.result.value[1].from < PageSize(pageViews[call.result.value[1].pageView])
       /\ resolvePageViewPosition(call.result.value[1].from, call.result.value[1].pageView)
             = call.args[1]

\* A position on a page that follows a page with content, not the first of its page.
C10_Witness ==
    /\ call.op = "getScreenPositions"
    /\ call.args[1] = call.args[2]
    /\ call.result.ok
    /\ Len(call.result.value) = 1
    /\ call.result.value[1].pageView >= 2
    /\ call.result.value[1].from >= 1
    /\ resolvePageViewPosition(call.result.value[1].from, call.result.value[1].pageView)
          = call.args[1]
    /\ call.args[1] > call.result.value[1].from

(***************************************************************************)
(* The layout service's tree, which cursor.ts reads through                *)
(* describePosition. A word is [size, trimmedSize], a line is              *)
(* [block, words], a page is a sequence of lines and the tree a sequence   *)
(* of pages. A node is named by its index among the nodes of its depth, in *)
(* document order, and 0 stands for null.                                  *)
(***************************************************************************)
\* Words in a layout tree.
MaxWords == 2
\* Sizes of a word; its trimmed size leaves out at most one trailing space.
WordSizes == {1, 2}
\* What separates a word from the word before it.
Gaps == {"word", "line", "block", "page", "pageBlock"}

LayoutLines(l) == Flatten(l)
LayoutWords(l) == Flatten([i \in 1..Len(LayoutLines(l)) |-> LayoutLines(l)[i].words])
WordsSize(words) == SumSeq([i \in 1..Len(words) |-> words[i].size])
LayoutSize(l) == WordsSize(LayoutWords(l))

\* The layout nodes of one depth, in document order.
WordNodes(l) == LayoutWords(l)
LineNodes(l) ==
    [n \in 1..Len(LayoutLines(l)) |->
        [size |-> WordsSize(LayoutLines(l)[n].words), block |-> LayoutLines(l)[n].block]]
BlockNodes(l) ==
    LET lines == LineNodes(l)
        count == IF lines = <<>> THEN 0 ELSE lines[Len(lines)].block
    IN [b \in 1..count |->
           [size |-> SumSeq([n \in 1..Len(lines) |->
                                IF lines[n].block = b THEN lines[n].size ELSE 0])]]

\* The position at which node n starts.
NodeStart(nodes, n) == SumSeq([i \in 1..(n - 1) |-> nodes[i].size])

InLayout(l, position) == 0 <= position /\ position < LayoutSize(l)

\* describePosition(position).atWord(), .atLine() and .atBlock(): the node
\* holding the position and the position within that node.
describePosition(nodes, position) ==
    LET n == CHOOSE n \in 1..Len(nodes) :
                 /\ NodeStart(nodes, n) <= position
                 /\ position < NodeStart(nodes, n) + nodes[n].size
    IN [node |-> n, position |-> position - NodeStart(nodes, n)]

previousCrossParentSibling(nodes, n) == n - 1
nextCrossParentSibling(nodes, n) == IF n < Len(nodes) THEN n + 1 ELSE 0

\* LineLayoutNode.convertCoordinatesToPosition(x, 0): every position of a line
\* is one unit wide, and a coordinate past the line gives its last position.
convertCoordinatesToPosition(lineNode, x, y) == Min(Max(x, 0), lineNode.size - 1)

OutOfRange == Err("Position is out of range")

(***************************************************************************)
(* The boundary searches of cursor.ts.                                     *)
(***************************************************************************)
atPreviousLine(position, leftLock, l) ==
    IF ~InLayout(l, position) THEN OutOfRange
    ELSE LET lines == LineNodes(l)
             d == describePosition(lines, position)
             previousLine == previousCrossParentSibling(lines, d.node)
         IN IF previousLine = 0
            THEN Ok(position - d.position)
            ELSE Ok(position - d.position - lines[previousLine].size
                    + convertCoordinatesToPosition(lines[previousLine], leftLock, 0))

atNextLine(position, leftLock, l) ==
    IF ~InLayout(l, position) THEN OutOfRange
    ELSE LET lines == LineNodes(l)
             d == describePosition(lines, position)
             nextLine == nextCrossParentSibling(lines, d.node)
         IN IF nextLine = 0
            THEN Ok(position - d.position + lines[d.node].size - 1)
            ELSE Ok(position - d.position + lines[d.node].size
                    + convertCoordinatesToPosition(lines[nextLine], leftLock, 0))

\* Mutant of atPreviousWord: the search steps back also from the first word.
atPreviousWordPastStart(position, l) ==
    IF ~InLayout(l, position) THEN OutOfRange
    ELSE LET words == WordNodes(l)
             d == describePosition(words, position)
             previousWord == previousCrossParentSibling(words, d.node)
         IN IF d.position > 0 THEN Ok(position - d.position)
            ELSE IF previousWord = 0 THEN Ok(position - 1)
            ELSE Ok(position - words[previousWord].size)

atPreviousWord(position, l) ==
    IF ~InLayout(l, position) THEN OutOfRange
    ELSE LET words == WordNodes(l)
             d == describePosition(words, position)
             previousWord == previousCrossParentSibling(words, d.node)
         IN IF d.position > 0 THEN Ok(position - d.position)
            ELSE IF previousWord = 0 THEN Ok(position)
            ELSE Ok(position - words[previousWord].size)

\* Mutant of atNextWord: inside a word the search goes to the end of the
\* word's span in place of the end of its trimmed text.
atNextWordBySize(position, l) ==
    IF ~InLayout(l, position) THEN OutOfRange
    ELSE LET words == WordNodes(l)
             d == describePosition(words, position)
             wordLayoutNode == words[d.node]
             nextWord == nextCrossParentSibling(words, d.node)
         IN IF d.position < wordLayoutNode.size - 1
            THEN Ok(position - d.position + wordLayoutNode.size)
            ELSE IF nextWord = 0 THEN Ok(position)
            ELSE Ok(position - d.position + wordLayoutNode.size + wordLayoutNode.trimmedSize)

atNextWord(position, l) ==
    IF ~InLayout(l, position) THEN OutOfRange
    ELSE LET words == WordNodes(l)
             d == describePosition(words, position)
             wordLayoutNode == words[d.node]
             nextWord == nextCrossParentSibling(words, d.node)
         IN IF d.position < wordLayoutNode.size - 1
            THEN Ok(position - d.position + wordLayoutNode.trimmedSize)
            ELSE IF nextWord = 0 THEN Ok(position)
            ELSE Ok(position - d.position + wordLayoutNode.size + wordLayoutNode.trimmedSize)

atLineStart(position, l) ==
    IF ~InLayout(l, position) THEN OutOfRange
    ELSE LET d == describePosition(LineNodes(l), position)
         IN IF d.position = 0 THEN Ok(position) ELSE Ok(position - d.position)

atLineEnd(position, l) ==
    IF ~InLayout(l, position) THEN OutOfRange
    ELSE LET lines == LineNodes(l)
             d == describePosition(lines, position)
         IN IF d.position >= lines[d.node].size - 1 THEN Ok(position)
            ELSE Ok(position - d.position + lines[d.node].size - 1)

(***************************************************************************)
(* The layout trees the searches and the command handlers are run on.      *)
(***************************************************************************)
Words == UNION {[size : {z}, trimmedSize : {z - 1, z}] : z \in WordSizes}

\* How many of the words 2..i follow a gap of one of the kinds.
GapCount(gaps, i, kinds) == Cardinality({j \in 2..i : gaps[j] \in kinds})

\* The elements of seq whose key is g; equal keys are adjacent.
GroupOf(seq, key, g) ==
    LET idx == {i \in 1..Len(seq) : key[i] = g}
        first == CHOOSE i \in idx : \A j \in idx : i <= j
    IN [x \in 1..Cardinality(idx) |-> seq[first + x - 1]]

FirstOf(key, g) == CHOOSE i \in DOMAIN key : key[i] = g /\ \A j \in DOMAIN key : key[j] = g => i <= j

\* The tree of the words, cut into lines, blocks and pages at the gaps.
LayoutOf(words, gaps) ==
    LET k == Len(words)
        lineKey == [i \in 1..k |-> 1 + GapCount(gaps, i, Gaps \ {"word"})]
        blockKey == [i \in 1..k |-> 1 + GapCount(gaps, i, {"block", "pageBlock"})]
        wordPageKey == [i \in 1..k |-> 1 + GapCount(gaps, i, {"page", "pageBlock"})]
        lines == [n \in 1..lineKey[k] |->
                     [block |-> blockKey[FirstOf(lineKey, n)],
                      words |-> GroupOf(words, lineKey, n)]]
        pageKey == [n \in 1..Len(lines) |-> wordPageKey[FirstOf(lineKey, n)]]
    IN [p \in 1..pageKey[Len(lines)] |-> GroupOf(lines, pageKey, p)]

\* Every tree of one to MaxWords words.
Layouts ==
    UNION {{LayoutOf(words, gaps) : gaps \in [2..Len(words) -> Gaps]} :
              words \in SeqsUpTo(Words, MaxWords) \ {<<>>}}

\* The blocks of box views a document view is given for the same document:
\* one box per word, one unit wide and high.
ViewBlocksOf(l) ==
    LET words == LayoutWords(l)
        lines == LayoutLines(l)
        blocks == BlockNodes(l)
    IN BlocksOf([i \in 1..Len(words) |-> [width |-> 1, height |-> 1, size |-> words[i].size]],
                [b \in 1..Len(blocks) |->
                    SumSeq([n \in 1..Len(lines) |->
                               IF lines[n].block = b THEN Len(lines[n].words) ELSE 0])])

\* The page sizes the document view lays that document out on.
ViewConfigs == {c \in PlainConfigs : c.pageWidth \in {1, 2} /\ c.pageHeight \in {0, 2}}

\* Left locks asked for.
LeftLocks == 0..2

\* The layout tree of a document and the document view of the same document.
LayoutInit ==
    \E l \in Layouts : \E c \in ViewConfigs :
        /\ ConstructedView(ViewBlocksOf(l), c, NoCursor)
        /\ NewTrees
        /\ layout = l /\ docContentSize = LayoutSize(l)
        /\ cursor = NoCursor /\ transformation = NoTransformation
        /\ call = NoCall

LayoutPositions == (0 - 1)..LayoutSize(layout)

AtPreviousLine ==
    \E position \in LayoutPositions, leftLock \in LeftLocks :
        Query("atPreviousLine", <<position, leftLock>>, atPreviousLine(position, leftLock, layout))

AtNextLine ==
    \E position \in LayoutPositions, leftLock \in LeftLocks :
        Query("atNextLine", <<position, leftLock>>, atNextLine(position, leftLock, layout))

AtPreviousWord ==
    \E position \in LayoutPositions :
        Query("atPreviousWord", <<position>>, atPreviousWord(position, layout))

AtNextWord ==
    \E position \in LayoutPositions :
        Query("atNextWord", <<position>>, atNextWord(position, layout))

AtLineStart ==
    \E position \in LayoutPositions :
        Query("atLineStart", <<position>>, atLineStart(position, layout))

AtLineEnd ==
    \E position \in LayoutPositions :
        Query("atLineEnd", <<position>>, atLineEnd(position, layout))

LayoutNext ==
    \/ AtPreviousLine
    \/ AtNextLine
    \/ AtPreviousWord
    \/ AtNextWord
    \/ AtLineStart
    \/ AtLineEnd
    \/ GetWordStartPosition
    \/ GetWordEndPosition

LayoutSpec == LayoutInit /\ [][LayoutNext]_vars

(***************************************************************************)
(* Claims about the boundary searches, checked under LayoutSpec.           *)
(***************************************************************************)
\* The word and the line holding a position of the layout.
WordAt(position) == describePosition(WordNodes(layout), position)
LineAt(position) == describePosition(LineNodes(layout), position)

\* C11 (as stated): for every valid position p other than the start of the
\* first word atNextWord(atPreviousWord(p)) = p, and for every valid p that is
\* not on the first line atNextLine(atPreviousLine(p, leftLock), leftLock) = p.
C11_BoundarySearchSymmetry ==
    /\ (/\ call.op = "atPreviousWord"
        /\ InLayout(layout, call.args[1])
        /\ call.args[1] # 0)
       => /\ call.result.ok
          /\ atNextWord(call.result.value, layout) = Ok(call.args[1])
    /\ (/\ call.op = "atPreviousLine"
        /\ InLayout(layout, call.args[1])
        /\ LineAt(call.args[1]).node > 1)
       => /\ call.result.ok
          /\ atNextLine(call.result.value, call.args[2], layout) = Ok(call.args[1])

\* p is where the trimmed text ends of the word atPreviousWord(p) goes to the
\* start of, a word of size 2 or more: p is inside a word at the offset of its
\* trimmed size, or p starts a word and the word before it has no trailing
\* space.
AtTrimmedEnd(p) ==
    LET words == WordNodes(layout)
        d == WordAt(p)
    IN \/ d.position > 0 /\ d.position = words[d.node].trimmedSize
       \/ /\ d.position = 0
          /\ d.node > 1
          /\ words[d.node - 1].size >= 2
          /\ words[d.node - 1].trimmedSize = words[d.node - 1].size

\* p is at the offset that the left lock resolves to on p's own line.
AtLeftLock(p, leftLock) ==
    LineAt(p).position
        = convertCoordinatesToPosition(LineNodes(layout)[LineAt(p).node], leftLock, 0)

\* C11 (amended): atNextWord(atPreviousWord(p)) = p for every valid p where the
\* trimmed text ends of the word that atPreviousWord(p) goes to, that word
\* being of size 2 or more; atNextLine(atPreviousLine(p, leftLock), leftLock)
\* = p for every valid p that is not on the first line and sits at the offset
\* leftLock resolves to on its line.
C11_SymmetryAtTrimmedEnd ==
    /\ (/\ call.op = "atPreviousWord"
        /\ InLayout(layout, call.args[1])
        /\ AtTrimmedEnd(call.args[1]))
       => /\ call.result.ok
          /\ atNextWord(call.result.value, layout) = Ok(call.args[1])
    /\ (/\ call.op = "atPreviousLine"
        /\ InLayout(layout, call.args[1])
        /\ LineAt(call.args[1]).node > 1
        /\ AtLeftLock(call.args[1], call.args[2]))
       => /\ call.result.ok
          /\ atNextLine(call.result.value, call.args[2], layout) = Ok(call.args[1])

\* atPreviousWord went back from the trimmed end of a word with a trailing
\* space to the start of that word.
C11_Witness ==
    /\ call.op = "atPreviousWord"
    /\ InLayout(layout, call.args[1])
    /\ WordAt(call.args[1]).position > 0
    /\ AtTrimmedEnd(call.args[1])
    /\ call.result = Ok(call.args[1] - 1)
    /\ Len(WordNodes(layout)) >= 2

\* C13: at the two ends of the document the searches return their input and
\* raise nothing: atPreviousWord at the start of the first word, atNextWord at
\* the last offset of the last word, getWordStartPosition(0) and
\* getWordEndPosition(size - 1).
C13_NoMovementAtDocumentEnds ==
    /\ (call.op = "atPreviousWord" /\ call.args[1] = 0)
       => call.result = Ok(0)
    /\ (call.op = "atNextWord" /\ call.args[1] = LayoutSize(layout) - 1)
       => call.result = Ok(LayoutSize(layout) - 1)
    /\ (call.op = "getWordStartPosition" /\ call.args[1] = 0)
       => call.result = Ok(0)
    /\ (call.op = "getWordEndPosition" /\ call.args[1] = getSize(boxViewBlocks) - 1)
       => call.result = Ok(getSize(boxViewBlocks) - 1)

\* atNextWord was asked at the last offset of the last of two words, which is
\* not the last offset of the first.
C13_Witness ==
    /\ call.op = "atNextWord"
    /\ Len(WordNodes(layout)) >= 2
    /\ call.args[1] = LayoutSize(layout) - 1
    /\ call.result = Ok(call.args[1])
    /\ getSize(boxViewBlocks) = LayoutSize(layout)

\* C20: from the last offset of a word that has a next word, atNextWord
\* returns a position of that next word's span.
C20_NextWordWithinNextSpan ==
    (/\ call.op = "atNextWord"
     /\ InLayout(layout, call.args[1])
     /\ WordAt(call.args[1]).position = WordNodes(layout)[WordAt(call.args[1]).node].size - 1
     /\ WordAt(call.args[1]).node < Len(WordNodes(layout)))
    => LET words == WordNodes(layout)
           next == WordAt(call.args[1]).node + 1
       IN /\ call.result.ok
          /\ NodeStart(words, next) <= call.result.value
          /\ call.result.value <= NodeStart(words, next) + words[next].size - 1

(***************************************************************************)
(* The command handlers of cursor.ts. A handler reads the cursor and the   *)
(* layout and either returns early (NoTransformation) or submits one       *)
(* Transformation [operations, head, anchor, keepLeftLock].                *)
(***************************************************************************)
\* new Transformation(operations, head, anchor, keepLeftLock); a handler that
\* leaves anchor out gets anchor = head, one that leaves keepLeftLock out
\* gets FALSE.
Transformation(operations, head, anchor, keepLeftLock) ==
    [operations |-> operations, head |-> head, anchor |-> anchor,
     keepLeftLock |-> keepLeftLock]

MoveCommandHandler(position) == Transformation(<<>>, position, position, FALSE)

MoveBackwardCommandHandler(c) ==
    IF c = NoCursor THEN NoTransformation
    ELSE LET newPosition == IF c.anchor = c.head THEN c.anchor - 1
                            ELSE Min(c.anchor, c.head)
         IN Transformation(<<>>, newPosition, newPosition, FALSE)

MoveForwardCommandHandler(c) ==
    IF c = NoCursor THEN NoTransformation
    ELSE LET newPosition == IF c.anchor = c.head THEN c.anchor + 1
                            ELSE Max(c.anchor, c.head)
         IN Transformation(<<>>, newPosition, newPosition, FALSE)

MoveBackwardByLineCommandHandler(c, l) ==
    IF c = NoCursor THEN NoTransformation
    ELSE LET position == Min(c.anchor, c.head)
             newPosition == atPreviousLine(position, c.leftLock, l).value
         IN Transformation(<<>>, newPosition, newPosition, TRUE)

MoveForwardByLineCommandHandler(c, l) ==
    IF c = NoCursor THEN NoTransformation
    ELSE LET position == Max(c.anchor, c.head)
             newPosition == atNextLine(position, c.leftLock, l).value
         IN Transformation(<<>>, newPosition, newPosition, TRUE)

MoveBackwardByWordCommandHandler(c, l) ==
    IF c = NoCursor THEN NoTransformation
    ELSE LET position == Min(c.anchor, c.head)
             newPosition == atPreviousWord(position, l).value
         IN Transformation(<<>>, newPosition, newPosition, FALSE)

\* Mutant of MoveForwardByWordCommandHandler: the anchor is kept, as in the
\* handlers that extend the selection.
MoveForwardByWordKeepingAnchor(c, l) ==
    IF c = NoCursor THEN NoTransformation
    ELSE LET position == Max(c.anchor, c.head)
             newPosition == atNextWord(position, l).value
         IN Transformation(<<>>, newPosition, Min(c.anchor, c.head), FALSE)

MoveForwardByWordCommandHandler(c, l) ==
    IF c = NoCursor THEN NoTransformation
    ELSE LET position == Max(c.anchor, c.head)
             newPosition == atNextWord(position, l).value
         IN Transformation(<<>>, newPosition, newPosition, FALSE)

MoveToLineStartCommandHandler(c, l) ==
    IF c = NoCursor THEN NoTransformation
    ELSE LET position == Min(c.anchor, c.head)
             newPosition == atLineStart(position, l).value
         IN Transformation(<<>>, newPosition, newPosition, FALSE)

MoveToLineEndCommandHandler(c, l) ==
    IF c = NoCursor THEN NoTransformation
    ELSE LET position == Min(c.anchor, c.head)
             newPosition == atLineEnd(position, l).value
         IN Transformation(<<>>, newPosition, newPosition, FALSE)

MoveToDocStartCommandHandler == Transformation(<<>>, 0, 0, FALSE)

\* Mutant of MoveToDocEndCommandHandler: the move carries an operation that
\* removes the last position of the content.
MoveToDocEndDeleting(contentSize) ==
    Transformation(<<0 - 1>>, contentSize - 2, contentSize - 2, FALSE)

MoveToDocEndCommandHandler(contentSize) ==
    Transformation(<<>>, contentSize - 1, contentSize - 1, FALSE)

MoveHeadCommandHandler(c, position) ==
    IF c = NoCursor THEN NoTransformation
    ELSE Transformation(<<>>, position, c.anchor, FALSE)

MoveHeadBackwardCommandHandler(c) ==
    IF c = NoCursor THEN NoTransformation
    ELSE Transformation(<<>>, Max(0, c.head - 1), c.anchor, FALSE)

MoveHeadForward(c, contentSize) ==
    IF c = NoCursor THEN NoTransformation
    ELSE Transformation(<<>>, Min(contentSize - 1, c.head + 1), c.anchor, FALSE)

MoveHeadBackwardByLineCommandHandler(c, l) ==
    IF c = NoCursor THEN NoTransformation
    ELSE Transformation(<<>>, atPreviousLine(c.head, c.leftLock, l).value, c.anchor, FALSE)

MoveHeadForwardByLineCommandHandler(c, l) ==
    IF c = NoCursor THEN NoTransformation
    ELSE Transformation(<<>>, atNextLine(c.head, c.leftLock, l).value, c.anchor, FALSE)

MoveHeadBackwardByWordCommandHandler(c, l) ==
    IF c = NoCursor THEN NoTransformation
    ELSE Transformation(<<>>, atPreviousWord(c.head, l).value, c.anchor, FALSE)

MoveHeadForwardByWordCommandHandler(c, l) ==
    IF c = NoCursor THEN NoTransformation
    ELSE Transformation(<<>>, atNextWord(c.head, l).value, c.anchor, FALSE)

MoveHeadToLineStartCommandHandler(c, l) ==
    IF c = NoCursor THEN NoTransformation
    ELSE Transformation(<<>>, atLineStart(c.head, l).value, c.anchor, FALSE)

MoveHeadToLineEndCommandHandler(c, l) ==
    IF c = NoCursor THEN NoTransformation
    ELSE Transformation(<<>>, atLineEnd(c.head, l).value, c.anchor, FALSE)

\* cursor?.anchor is undefined without a cursor, and anchor is then left out.
MoveHeadToDocStartCommandHandler(c) ==
    Transformation(<<>>, 0, IF c = NoCursor THEN 0 ELSE c.anchor, FALSE)

MoveHeadToDocEndCommandHandler(c, contentSize) ==
    Transformation(<<>>, contentSize - 1,
                   IF c = NoCursor THEN contentSize - 1 ELSE c.anchor, FALSE)

\* Mutant of SelectAllCommandHandler: the anchor stays where it was.
SelectAllFromAnchor(c, contentSize) ==
    IF c = NoCursor THEN NoTransformation
    ELSE Transformation(<<>>, contentSize - 1, c.anchor, FALSE)

SelectAllCommandHandler(c, contentSize) ==
    IF c = NoCursor THEN NoTransformation
    ELSE LET newAnchor == 0
             newHead == contentSize - 1
         IN Transformation(<<>>, newHead, newAnchor, FALSE)

SelectWordCommandHandle(c, l, position) ==
    IF c = NoCursor THEN NoTransformation
    ELSE LET words == WordNodes(l)
             d == describePosition(words, position)
             previousWord == previousCrossParentSibling(words, d.node)
         IN IF words[d.node].trimmedSize = 0
            THEN IF previousWord = 0 THEN NoTransformation
                 ELSE LET wordPosition == d.position + words[previousWord].size
                      IN Transformation(<<>>,
                             position - wordPosition + words[previousWord].trimmedSize,
                             position - wordPosition, FALSE)
            ELSE Transformation(<<>>,
                     position - d.position + words[d.node].trimmedSize,
                     position - d.position, FALSE)

SelectBlockCommandHandler(c, l, position) ==
    IF c = NoCursor THEN NoTransformation
    ELSE LET blocks == BlockNodes(l)
             d == describePosition(blocks, position)
         IN Transformation(<<>>, position - d.position + blocks[d.node].size - 1,
                           position - d.position, FALSE)

(***************************************************************************)
(* The transform, cursor and model services the handlers submit to.        *)
(***************************************************************************)
\* An operation is the change it makes to the content size.
ApplyOperations(contentSize, operations) == contentSize + SumSeq(operations)

TargetInRange(t, contentSize) ==
    /\ 0 <= t.head /\ t.head < contentSize
    /\ 0 <= t.anchor /\ t.anchor < contentSize

\* The horizontal position of an offset: its offset in its line.
LeftLockOf(l, position) == describePosition(LineNodes(l), position).position

\* The cursor after a Transformation is applied: head and anchor are its
\* target, leftLock is kept or taken from the new head.
CursorAfter(c, t, l) ==
    IF c = NoCursor THEN NoCursor
    ELSE [anchor |-> t.anchor, head |-> t.head,
          leftLock |-> IF t.keepLeftLock THEN c.leftLock ELSE LeftLockOf(l, t.head)]

\* A handler ran: it read the cursor and submitted t (or returned early).
\* applyTransformation applies the operations and moves the cursor; a target
\* outside the content is an out-of-range error and changes nothing.
Handle(op, args, t) ==
    /\ transformation' = t
    /\ IF t = NoTransformation
       THEN /\ call' = [op |-> op, args |-> args, result |-> Ok(0)]
            /\ UNCHANGED <<cursor, docContentSize>>
       ELSE IF ~TargetInRange(t, ApplyOperations(docContentSize, t.operations))
       THEN /\ call' = [op |-> op, args |-> args, result |-> OutOfRange]
            /\ UNCHANGED <<cursor, docContentSize>>
       ELSE /\ call' = [op |-> op, args |-> args, result |-> Ok(0)]
            /\ docContentSize' = ApplyOperations(docContentSize, t.operations)
            /\ cursor' = CursorAfter(cursor, t, layout)
    /\ UNCHANGED <<viewVars, renderVars, treeVars, layout>>

\* The layout trees the handlers run on: cursor.ts reads pages through the
\* cross-parent siblings only, so a new page here always starts a new block.
CursorLayouts ==
    UNION {{LayoutOf(words, gaps) : gaps \in [2..Len(words) -> {"word", "line", "pageBlock"}]} :
              words \in SeqsUpTo(Words, MaxWords) \ {<<>>}}

\* A document is laid out and has no cursor yet; the document view beside it
\* is empty.
CursorInit ==
    \E l \in CursorLayouts :
        \E c \in {c \in PlainConfigs : c.pageWidth = 0 /\ c.pageHeight = 0} :
            /\ ConstructedView(<<>>, c, NoCursor)
            /\ NewTrees
            /\ layout = l /\ docContentSize = LayoutSize(l)
            /\ cursor = NoCursor /\ transformation = NoTransformation
            /\ call = NoCall

\* The positions a command is given.
ValidPositions == 0..(docContentSize - 1)

\* Focus is acquired: a caret at the start of the document.
Focus ==
    /\ cursor = NoCursor
    /\ cursor' = [anchor |-> 0, head |-> 0, leftLock |-> 0]
    /\ call' = [op |-> "focus", args |-> <<>>, result |-> Ok(0)]
    /\ UNCHANGED <<viewVars, renderVars, treeVars, layout, docContentSize, transformation>>

\* One run of a command handler; Move, MoveHead, SelectWord and SelectBlock
\* are given a position.
CursorNext ==
    \/ Focus
    \/ \E position \in ValidPositions :
          Handle("Move", <<position>>, MoveCommandHandler(position))
    \/ Handle("MoveBackward", <<>>, MoveBackwardCommandHandler(cursor))
    \/ Handle("MoveForward", <<>>, MoveForwardCommandHandler(cursor))
    \/ Handle("MoveBackwardByLine", <<>>, MoveBackwardByLineCommandHandler(cursor, layout))
    \/ Handle("MoveForwardByLine", <<>>, MoveForwardByLineCommandHandler(cursor, layout))
    \/ Handle("MoveBackwardByWord", <<>>, MoveBackwardByWordCommandHandler(cursor, layout))
    \/ Handle("MoveForwardByWord", <<>>, MoveForwardByWordCommandHandler(cursor, layout))
    \/ Handle("MoveToLineStart", <<>>, MoveToLineStartCommandHandler(cursor, layout))
    \/ Handle("MoveToLineEnd", <<>>, MoveToLineEndCommandHandler(cursor, layout))
    \/ Handle("MoveToDocStart", <<>>, MoveToDocStartCommandHandler)
    \/ Handle("MoveToDocEnd", <<>>, MoveToDocEndCommandHandler(docContentSize))
    \/ \E position \in ValidPositions :
          Handle("MoveHead", <<position>>, MoveHeadCommandHandler(cursor, position))
    \/ Handle("MoveHeadBackward", <<>>, MoveHeadBackwardCommandHandler(cursor))
    \/ Handle("MoveHeadForward", <<>>, MoveHeadForward(cursor, docContentSize))
    \/ Handle("MoveHeadBackwardByLine", <<>>, MoveHeadBackwardByLineCommandHandler(cursor, layout))
    \/ Handle("MoveHeadForwardByLine", <<>>, MoveHeadForwardByLineCommandHandler(cursor, layout))
    \/ Handle("MoveHeadBackwardByWord", <<>>, MoveHeadBackwardByWordCommandHandler(cursor, layout))
    \/ Handle("MoveHeadForwardByWord", <<>>, MoveHeadForwardByWordCommandHandler(cursor, layout))
    \/ Handle("MoveHeadToLineStart", <<>>, MoveHeadToLineStartCommandHandler(cursor, layout))
    \/ Handle("MoveHeadToLineEnd", <<>>, MoveHeadToLineEndCommandHandler(cursor, layout))
    \/ Handle("MoveHeadToDocStart", <<>>, MoveHeadToDocStartCommandHandler(cursor))
    \/ Handle("MoveHeadToDocEnd", <<>>, MoveHeadToDocEndCommandHandler(cursor, docContentSize))
    \/ Handle("SelectAll", <<>>, SelectAllCommandHandler(cursor, docContentSize))
    \/ \E position \in ValidPositions :
          Handle("SelectWord", <<position>>, SelectWordCommandHandle(cursor, layout, position))
    \/ \E position \in ValidPositions :
          Handle("SelectBlock", <<position>>, SelectBlockCommandHandler(cursor, layout, position))

CursorSpec == CursorInit /\ [][CursorNext]_vars

(***************************************************************************)
(* Claims about the command handlers, checked under CursorSpec. A step of  *)
(* CursorSpec is the run of one handler, named by call'.op; cursor is the  *)
(* cursor the handler read and transformation' what it submitted.          *)
(***************************************************************************)
IsCaret(c) == c # NoCursor /\ c.anchor = c.head

\* C12: MoveForwardByWord with a caret strictly inside a word (local offset
\* below the word's size - 1) submits a caret Transformation at the word's
\* start plus the word's trimmed size.
C12_ForwardByWordToTrimmedEnd ==
    [][(/\ call'.op = "MoveForwardByWord"
        /\ IsCaret(cursor)
        /\ WordAt(cursor.head).position
              < WordNodes(layout)[WordAt(cursor.head).node].size - 1)
       => transformation'
            = Transformation(<<>>,
                  cursor.head - WordAt(cursor.head).position
                      + WordNodes(layout)[WordAt(cursor.head).node].trimmedSize,
                  cursor.head - WordAt(cursor.head).position
                      + WordNodes(layout)[WordAt(cursor.head).node].trimmedSize,
                  FALSE)]_vars

\* MoveForwardByWord moved the caret to offset 1 of a first word of size 2 and
\* trimmed size 1 that has a next word: only a caret at offset 0, strictly
\* inside the word, is sent there.
C12_Witness ==
    /\ call.op = "MoveForwardByWord"
    /\ Len(WordNodes(layout)) = 2
    /\ WordNodes(layout)[1] = [size |-> 2, trimmedSize |-> 1]
    /\ transformation = Transformation(<<>>, 1, 1, FALSE)
    /\ cursor # NoCursor /\ cursor.anchor = 1 /\ cursor.head = 1

\* C14: every Transformation a command submits has its head and its anchor in
\* [0, contentSize - 1]; a command at an edge of the document submits the
\* position the cursor is at.
C14_TargetsStayInContent ==
    (call.op \notin {"none", "focus"} /\ transformation # NoTransformation)
    => TargetInRange(transformation, docContentSize)

\* The directional moves that do not extend the selection.
BackwardMoves == {"MoveBackward", "MoveBackwardByWord"}
ForwardMoves == {"MoveForward", "MoveForwardByWord"}

\* C15: a directional move issued on a range (anchor # head) submits a caret
\* at exactly min(anchor, head) when backward and max(anchor, head) when
\* forward.
C15_RangeCollapsesToBoundary ==
    [][(cursor # NoCursor /\ cursor.anchor # cursor.head)
       => /\ call'.op \in BackwardMoves
             => transformation' = Transformation(<<>>, Min(cursor.anchor, cursor.head),
                                                 Min(cursor.anchor, cursor.head), FALSE)
          /\ call'.op \in ForwardMoves
             => transformation' = Transformation(<<>>, Max(cursor.anchor, cursor.head),
                                                 Max(cursor.anchor, cursor.head), FALSE)]_vars

VerticalCommands ==
    {"MoveBackwardByLine", "MoveForwardByLine",
     "MoveHeadBackwardByLine", "MoveHeadForwardByLine"}
HorizontalCommands ==
    {"Move", "MoveBackward", "MoveForward", "MoveBackwardByWord", "MoveForwardByWord",
     "MoveToLineStart", "MoveToLineEnd", "MoveToDocStart", "MoveToDocEnd",
     "MoveHead", "MoveHeadBackward", "MoveHeadForward",
     "MoveHeadBackwardByWord", "MoveHeadForwardByWord",
     "MoveHeadToLineStart", "MoveHeadToLineEnd", "MoveHeadToDocStart", "MoveHeadToDocEnd",
     "SelectAll", "SelectWord", "SelectBlock"}

\* C16: every vertical command submits with keepLeftLock set and leaves
\* leftLock as it was; every horizontal command submits without keepLeftLock.
C16_VerticalKeepsLeftLock ==
    [][/\ (call'.op \in VerticalCommands /\ cursor # NoCursor)
          => /\ transformation'.keepLeftLock
             /\ cursor'.leftLock = cursor.leftLock
       /\ (call'.op \in HorizontalCommands /\ transformation' # NoTransformation)
          => ~transformation'.keepLeftLock]_vars

\* C17: SelectAll with a cursor and content of size N >= 1 submits anchor 0
\* and head N - 1.
C17_SelectAllSpansContent ==
    (call.op = "SelectAll" /\ cursor # NoCursor /\ docContentSize >= 1)
    => /\ transformation # NoTransformation
       /\ transformation.anchor = 0
       /\ transformation.head = docContentSize - 1

\* SelectAll selected a content of two or more positions.
C17_Witness ==
    /\ call.op = "SelectAll"
    /\ docContentSize >= 2
    /\ transformation = Transformation(<<>>, docContentSize - 1, 0, FALSE)
    /\ cursor # NoCursor /\ cursor.anchor = 0 /\ cursor.head = docContentSize - 1

\* C18: every Transformation a handler submits has no operation, and the
\* content size stays the size of the content that was laid out.
C18_CursorMovesCarryNoOperation ==
    /\ transformation # NoTransformation => transformation.operations = <<>>
    /\ docContentSize = LayoutSize(layout)

\* MoveToDocEnd moved a caret from elsewhere to the end of the content.
C18_Witness ==
    /\ call.op = "MoveToDocEnd"
    /\ docContentSize >= 2
    /\ transformation = Transformation(<<>>, docContentSize - 1, docContentSize - 1, FALSE)
    /\ cursor # NoCursor /\ cursor.head = docContentSize - 1

(***************************************************************************)
(* The child lists of Doc (model) and DocView (view). A child is named by  *)
(* a number; the DOM container of page view n is DOM node n.               *)
(***************************************************************************)
\* The nodes that can be inserted and deleted.
NodeIds == {1, 2}

\* Node.appendChild(node): the node leaves the place it had in the container,
\* if it had one, and becomes the last child node.
Without(nodes, node) == SelectSeq(nodes, LAMBDA x : x # node)
DomAppendChild(nodes, node) == Append(Without(nodes, node), node)

\* Node.insertBefore(node, reference), reference being childNodes[index]
\* (index counts from 0): undefined appends; a reference that is the node
\* itself stands for the node's next sibling.
DomInsertBefore(nodes, node, index) ==
    IF index >= Len(nodes) THEN DomAppendChild(nodes, node)
    ELSE LET reference == IF nodes[index + 1] # node THEN nodes[index + 1]
                          ELSE IF index + 2 <= Len(nodes) THEN nodes[index + 2]
                          ELSE 0
         IN IF reference = 0 THEN DomAppendChild(nodes, node)
            ELSE LET rest == Without(nodes, node)
                     at == IndexOf(rest, reference)
                 IN SubSeq(rest, 1, at) \o <<node>> \o SubSeq(rest, at + 1, Len(rest))

\* The child nodes after the DOM calls of DocView.insertChild(child, offset),
\* when the offset is in range.
DomAfterInsert(nodes, child, offset) ==
    DomAppendChild(IF offset = Len(nodes) THEN DomAppendChild(nodes, child)
                   ELSE DomInsertBefore(nodes, child, offset + 1),
                   child)

\* New, empty trees; the document view and the services beside them are empty.
TreeInit ==
    \E c \in {c \in PlainConfigs : c.pageWidth = 0 /\ c.pageHeight = 0} :
        Constructed(<<>>, c, NoCursor)

\* Doc.insertChild(child, offset)
DocInsertChild ==
    /\ Len(docChildren) < MaxChildren
    /\ \E child \in NodeIds : \E offset \in 0..Len(docChildren) :
          /\ docChildren' = SpliceIn(docChildren, offset, child)
          /\ Called("Doc.insertChild", <<child, offset>>, Ok(0))
    /\ UNCHANGED <<viewVars, renderVars, serviceVars, viewChildren, domChildNodes>>

\* Doc.deleteChild(child)
DocDeleteChild ==
    /\ \E child \in NodeIds :
          LET childOffset == IndexOf(docChildren, child)
          IN IF childOffset < 0
             THEN /\ Called("Doc.deleteChild", <<child>>,
                            Err("Cannot delete child, child not found."))
                  /\ UNCHANGED docChildren
             ELSE /\ docChildren' = SpliceOut(docChildren, childOffset)
                  /\ Called("Doc.deleteChild", <<child>>, Ok(0))
    /\ UNCHANGED <<viewVars, renderVars, serviceVars, viewChildren, domChildNodes>>

\* DocView.insertChild(child, offset): the child is pushed onto children
\* before the offset is tested against the DOM child nodes.
DocViewInsertChild ==
    /\ Len(viewChildren) < MaxChildren
    /\ \E child \in NodeIds : \E offset \in 0..(Len(domChildNodes) + 1) :
          /\ viewChildren' = Append(viewChildren, child)
          /\ IF offset > Len(domChildNodes)
             THEN /\ Called("DocView.insertChild", <<child, offset>>,
                            Err("Error inserting child to doc view, offset is out of range."))
                  /\ UNCHANGED domChildNodes
             ELSE /\ domChildNodes' = DomAfterInsert(domChildNodes, child, offset)
                  /\ Called("DocView.insertChild", <<child, offset>>, Ok(0))
    /\ UNCHANGED <<viewVars, renderVars, serviceVars, docChildren>>

TreeNext ==
    \/ DocInsertChild
    \/ DocDeleteChild
    \/ DocViewInsertChild
    \/ DeleteChild

TreeSpec == TreeInit /\ [][TreeNext]_vars

\* C19: a child-list operation that raises an error leaves the child list of
\* its node as it was: deleteChild of an absent child on Doc and on
\* DocRenderNode, DocView.insertChild with an offset past the DOM children.
C19_FailedOperationKeepsChildren ==
    [][(/\ ~call'.result.ok
        /\ call'.op \in {"Doc.deleteChild", "deleteChild", "DocView.insertChild"})
       => /\ docChildren' = docChildren
          /\ children' = children
          /\ viewChildren' = viewChildren]_vars

(***************************************************************************)
(* C21. After any sequence of insertChild, deleteChild and onModelUpdated  *)
(* calls on a DocRenderNode, interleaved with reads, getSelectableSize()   *)
(* is the sum of the current children's selectable sizes and               *)
(* getModelSize() is 2 plus the sum of their model sizes: a cached size is *)
(* never stale after the child list changed.                               *)
(***************************************************************************)
C21_CachedSizesAreCurrent ==
    /\ \A v \in selectableSize : v = ComputedSelectableSize(children)
    /\ \A v \in modelSize : v = ComputedModelSize(children)
    /\ call.op = "getSelectableSize" => call.result = Ok(ComputedSelectableSize(children))
    /\ call.op = "getModelSize" => call.result = Ok(ComputedModelSize(children))

\* Both sizes are read and cached on a node that has been given two children
\* with content.
C21_Witness ==
    /\ Len(children) = 2
    /\ call.op = "getModelSize"
    /\ call.result = Ok(2 + children[1].modelSize + children[2].modelSize)
    /\ selectableSize = {children[1].selectableSize + children[2].selectableSize}
    /\ children[1].selectableSize > 0 /\ children[2].selectableSize > 0

(***************************************************************************)
(* C22. When there is no cursor, every command handler of cursor.ts        *)
(* returns without submitting a Transformation, so the no-selection state  *)
(* is left only by acquiring focus; MoveCommandHandler, MoveToDocStart,    *)
(* MoveToDocEnd, MoveHeadToDocStart and MoveHeadToDocEnd included.         *)
(***************************************************************************)
C22_NoCursorNoTransformation ==
    [][(cursor = NoCursor /\ call'.op # "focus")
       => (transformation' = NoTransformation /\ cursor' = NoCursor)]_vars

(***************************************************************************)
(* C23. The layout is an order-preserving partition: the boxes of all      *)
(* lines, in line order, are the boxes of all blocks in block order, none  *)
(* lost, repeated or moved; the lines of all pages, in page order, are the *)
(* lines; so the page sizes sum to the box sizes.                          *)
(***************************************************************************)
C23_LayoutIsOrderedPartition ==
    /\ Flatten([i \in 1..Len(lineViews) |-> lineViews[i].boxViews])
          = Flatten([k \in 1..Len(boxViewBlocks) |-> boxViewBlocks[k].boxViews])
    /\ Flatten([p \in 1..Len(pageViews) |-> pageViews[p].lineViews]) = lineViews
    /\ SumSeq([p \in 1..Len(pageViews) |-> PageSize(pageViews[p])]) = getSize(boxViewBlocks)

\* Two blocks, the first broken over two lines, laid out on two pages with
\* lines on each, after the pages have been built again.
C23_Witness ==
    /\ lastBuild = "buildPageViews"
    /\ Len(boxViewBlocks) = 2
    /\ Len(boxViewBlocks[1].boxViews) = 2
    /\ Len(lineViews) = 3
    /\ lineViews[1].boxViews # <<>> /\ lineViews[2].boxViews # <<>> /\ lineViews[3].boxViews # <<>>
    /\ Len(pageViews) = 2
    /\ pageViews[1].lineViews # <<>> /\ pageViews[2].lineViews # <<>>

(***************************************************************************)
(* C24. After buildLineViews every line of a block that has a box holds a  *)
(* box: starting a new line never leaves the line before it empty, also    *)
(* when the first box of a block is wider than the page content width.     *)
(***************************************************************************)
\* The lines buildLineViews makes for block k.
LinesOfBlock(k) == BuildBlockLines(<<>>, <<boxViewBlocks[k]>>, config)

C24_NoEmptyLineInBlockWithBoxes ==
    /\ lineViews = Flatten([k \in 1..Len(boxViewBlocks) |-> LinesOfBlock(k)])
    /\ \A k \in 1..Len(boxViewBlocks) :
          boxViewBlocks[k].boxViews # <<>>
          => \A i \in 1..Len(LinesOfBlock(k)) : LinesOfBlock(k)[i].boxViews # <<>>

(***************************************************************************)
(* C25. For 0 <= from <= to < document size, in every layout               *)
(* buildPageViews can produce, getScreenPositions(from, to) returns one    *)
(* entry for each page whose span overlaps [from, to] and for no other     *)
(* page; the page-local range of each entry is within the page,            *)
(* 0 <= from <= to <= page size - 1; and the local ranges, mapped back     *)
(* through resolvePageViewPosition, cover the offsets from..to, each once. *)
(***************************************************************************)
\* The page holds an offset of from..to.
PageOverlaps(n, from, to) ==
    \E q \in from..to :
        /\ resolvePageViewPosition(0, n) <= q
        /\ q < resolvePageViewPosition(0, n) + PageSize(pageViews[n])

\* The pairs of an entry and a page-local offset of its range.
LocalOffsets(screenPositions) ==
    {x \in (1..Len(screenPositions)) \X (0..getSize(boxViewBlocks)) :
        screenPositions[x[1]].from <= x[2] /\ x[2] <= screenPositions[x[1]].to}

C25_ScreenPositionsCoverRange ==
    (/\ call.op = "getScreenPositions"
     /\ 0 <= call.args[1] /\ call.args[1] <= call.args[2]
     /\ call.args[2] < getSize(boxViewBlocks))
    => /\ call.result.ok
       /\ \A n \in 1..Len(pageViews) :
             Cardinality({e \in 1..Len(call.result.value) : call.result.value[e].pageView = n})
                = IF PageOverlaps(n, call.args[1], call.args[2]) THEN 1 ELSE 0
       /\ \A e \in 1..Len(call.result.value) :
             /\ 0 <= call.result.value[e].from
             /\ call.result.value[e].from <= call.result.value[e].to
             /\ call.result.value[e].to <= PageSize(pageViews[call.result.value[e].pageView]) - 1
       /\ \A q \in call.args[1]..call.args[2] :
             Cardinality({x \in LocalOffsets(call.result.value) :
                 resolvePageViewPosition(x[2], call.result.value[x[1]].pageView) = q}) = 1
       /\ \A x \in LocalOffsets(call.result.value) :
             resolvePageViewPosition(x[2], call.result.value[x[1]].pageView)
                \in call.args[1]..call.args[2]

(***************************************************************************)
(* C26. The backward word search makes progress away from the document     *)
(* start: for every layout and every position p with 0 < p < document      *)
(* size, getWordStartPosition(p) < p and is the start offset of a word     *)
(* box; getWordEndPosition(p) > p for every p < size - 1. The search stays *)
(* put only at the two ends of the document.                               *)
(***************************************************************************)
\* The offsets at which the word boxes start.
WordStartOffsets ==
    LET boxes == Flatten([k \in 1..Len(boxViewBlocks) |-> boxViewBlocks[k].boxViews])
    IN {SumSeq([i \in 1..(j - 1) |-> boxes[i].size]) : j \in 1..Len(boxes)}

C26_WordSearchMakesProgress ==
    /\ (/\ call.op = "getWordStartPosition"
        /\ 0 < call.args[1] /\ call.args[1] < getSize(boxViewBlocks))
       => /\ call.result.ok
          /\ call.result.value < call.args[1]
          /\ call.result.value \in WordStartOffsets
    /\ (/\ call.op = "getWordEndPosition"
        /\ 0 <= call.args[1] /\ call.args[1] < getSize(boxViewBlocks) - 1)
       => /\ call.result.ok
          /\ call.result.value > call.args[1]

(***************************************************************************)
(* C27. After DocView.insertChild(child, offset) with 0 <= offset <= the   *)
(* current child count, the child is at index offset of getChildren() and  *)
(* its DOM container at index offset of the doc's DOM container, so the    *)
(* children and the DOM child nodes are the same sequence, in the order    *)
(* the insertion offsets give. Read for a page view that is not yet a      *)
(* child, inserted where the children and the DOM child nodes agree.       *)
(***************************************************************************)
C27_InsertChildAtOffset ==
    [][(/\ call'.op = "DocView.insertChild"
        /\ viewChildren = domChildNodes
        /\ \A i \in 1..Len(viewChildren) : viewChildren[i] # call'.args[1]
        /\ call'.args[2] <= Len(viewChildren))
       => /\ call'.result.ok
          /\ viewChildren' = SpliceIn(viewChildren, call'.args[2], call'.args[1])
          /\ domChildNodes' = viewChildren']_vars

====
